---- MODULE Spec2Model ----
(***************************************************************************)
(* The three gh-backed fetchers of .codex/skills/review-pull-request:      *)
(* fetch_issue.py, fetch_pr_diff.py and fetch_pr_comments.py.              *)
(*                                                                         *)
(* A run is one process: main() reads sys.argv, parses the reference,      *)
(* probes `gh auth status`, issues its queries through _run/_run_json and  *)
(* prints one JSON document.  Every external process is a step whose       *)
(* outcome (exit code, stderr, stdout) the environment chooses.            *)
(*                                                                         *)
(* Strings are sequences of symbols.  The symbol "/pull/" stands for that  *)
(* literal substring, so re.search(r"/pull/(\d+)") is "the symbol          *)
(* followed by a digit".                                                   *)
(***************************************************************************)
EXTENDS Integers, Sequences, FiniteSets, TLC

\* ------------------------------------------------------------------ bounds
MaxLen == 4        \* longest argument string of ParseSpec
MaxK == 2          \* most pages of a collection that report hasNextPage=true
NodesPerPage == 1  \* nodes on each page of a collection
MaxArgc == 3       \* largest len(sys.argv)

\* ----------------------------------------------------------------- strings
Digits == {"0", "1"}
Whitespace == {" "}
Chars == Digits \cup Whitespace \cup {"#", "-", "a", "/pull/"}

Strings(n) == UNION {[1..k -> Chars] : k \in 0..n}

DigitVal(c) == IF c = "0" THEN 0 ELSE 1

\* str.lstrip(chars): drops every leading symbol that is in chars
RECURSIVE LStrip(_, _)
LStrip(s, chars) ==
    IF s # <<>> /\ Head(s) \in chars THEN LStrip(Tail(s), chars) ELSE s

RECURSIVE RStrip(_, _)
RStrip(s, chars) ==
    IF s # <<>> /\ s[Len(s)] \in chars
    THEN RStrip(SubSeq(s, 1, Len(s) - 1), chars)
    ELSE s

\* str.strip(): drops leading and trailing whitespace
Strip(s) == RStrip(LStrip(s, Whitespace), Whitespace)

\* re.fullmatch(r"\d+", s)
FullMatchDigits(s) == Len(s) >= 1 /\ \A i \in 1..Len(s) : s[i] \in Digits

\* re.fullmatch(r"#\d+", s)
FullMatchHashDigits(s) == Len(s) >= 2 /\ s[1] = "#" /\ FullMatchDigits(Tail(s))

\* re.search(r"/pull/(\d+)", s)
SearchPull(s) == \E i \in 1..Len(s) : s[i] = "/pull/" /\ i < Len(s) /\ s[i + 1] \in Digits

\* int(s) of a string of digits
RECURSIVE ToInt(_)
ToInt(s) ==
    IF s = <<>> THEN 0
    ELSE 10 * ToInt(SubSeq(s, 1, Len(s) - 1)) + DigitVal(s[Len(s)])

\* whether the token sequence m contains s as a contiguous run
Embeds(m, s) ==
    \E i \in 1..(Len(m) + 1) :
        /\ i + Len(s) - 1 <= Len(m)
        /\ SubSeq(m, i, i + Len(s) - 1) = s

\* ------------------------------------------------------- reference parsers
\* mutant of _parse_issue_number: the test `n < 1` is left out
_parse_issue_number_NoMin(arg) ==
    LET s == LStrip(Strip(arg), {"#"}) IN
    IF ~FullMatchDigits(s) THEN [ok |-> FALSE, n |-> 0]
    ELSE [ok |-> TRUE, n |-> ToInt(s)]

\* fetch_issue._parse_issue_number: [ok, n]; ok = FALSE is the ValueError
_parse_issue_number(arg) ==
    LET s == LStrip(Strip(arg), {"#"}) IN
    IF ~FullMatchDigits(s) THEN [ok |-> FALSE, n |-> 0]
    ELSE IF ToInt(s) < 1 THEN [ok |-> FALSE, n |-> 0]
    ELSE [ok |-> TRUE, n |-> ToInt(s)]

\* fetch_pr_diff._parse_pr_ref / fetch_pr_comments._parse_pr_ref:
\* [ok, ref]; ok = FALSE is the ValueError
_parse_pr_ref(arg) ==
    LET s == Strip(arg) IN
    IF FullMatchHashDigits(s) THEN [ok |-> TRUE, ref |-> LStrip(s, {"#"})]
    ELSE IF FullMatchDigits(s) THEN [ok |-> TRUE, ref |-> s]
    ELSE IF SearchPull(s) THEN [ok |-> TRUE, ref |-> s]
    ELSE [ok |-> FALSE, ref |-> <<>>]

\* ------------------------------------------------------------ JSON values
\* A JSON value is a tagged record; Python's None is Null.  An object holds
\* a function from its keys to values, so an absent key is a key outside
\* the function's domain.
Null == [t |-> "null"]
Str(s) == [t |-> "str", s |-> s]
List(items) == [t |-> "list", items |-> items]
Obj(f) == [t |-> "obj", f |-> f]
EmptyObj == Obj([k \in {} |-> Null])
ABSENT == [t |-> "absent"]   \* marks a key left out when a payload is built

\* dict.get(k)
Get(d, k) == IF k \in DOMAIN d.f THEN d.f[k] ELSE Null

\* Python truthiness
Truthy(v) ==
    CASE v.t = "null" -> FALSE
      [] v.t = "str" -> v.s # ""
      [] v.t = "list" -> v.items # <<>>
      [] v.t = "obj" -> DOMAIN v.f # {}

\* v or d
Or(v, d) == IF Truthy(v) THEN v ELSE d

\* isinstance(v, dict)
IsDict(v) == v.t = "obj"

\* the object with the keys of fields whose value is not ABSENT
MkObj(fields) ==
    Obj([k \in {x \in DOMAIN fields : fields[x] # ABSENT} |-> fields[k]])

AuthorVals ==
    { ABSENT, Null,
      MkObj([login |-> Str("alice")]),
      MkObj([name |-> Str("Alice")]),
      Str("ghost") }

BodyVals == {ABSENT, Null, Str("text")}

AssigneeVals ==
    { ABSENT, Null, List(<<>>),
      List(<<MkObj([login |-> Str("bob")])>>),
      List(<<Str("x"), MkObj([name |-> Str("Bob")])>>) }

LabelVals ==
    { ABSENT, Null, List(<<>>),
      List(<<MkObj([name |-> Str("bug")])>>),
      List(<<Str("x"), MkObj([color |-> Str("red")])>>) }

Comment(author, body) == MkObj([id |-> Str("c1"), author |-> author, body |-> body])

CommentVals ==
    { ABSENT, Null, List(<<>>),
      List(<<Comment(Null, Str("hi"))>>),
      List(<<Comment(MkObj([login |-> Str("carol")]), Null)>>),
      List(<<Str("x"), Comment(ABSENT, ABSENT)>>) }

\* the payloads `gh issue view --json ...` may print
IssuePayloads ==
    { MkObj([author |-> a, body |-> b, assignees |-> s, labels |-> l, comments |-> c]) :
        a \in AuthorVals, b \in BodyVals, s \in AssigneeVals,
        l \in LabelVals, c \in CommentVals }

\* (v.get("author") or {}).get("login") raises AttributeError when the
\* author is a truthy value that is no dict
AuthorRaises(v) == ~IsDict(Or(Get(v, "author"), EmptyObj))
AuthorLogin(v) == Get(Or(Get(v, "author"), EmptyObj), "login")

\* [x.get(key) for x in (payload.get(field) or []) if isinstance(x, dict)]
Flatten(payload, field, key) ==
    LET dicts == SelectSeq(Or(Get(payload, field), List(<<>>)).items, IsDict)
    IN [i \in 1..Len(dicts) |-> Get(dicts[i], key)]

NormalizeComment(c) ==
    [ id |-> Get(c, "id"),
      author |-> AuthorLogin(c),
      body |-> Or(Get(c, "body"), Str("")) ]

\* fetch_issue's normalization of a parsed payload: [ok, val]; ok = FALSE is
\* the AttributeError of an author that is no dict
NormalizeIssue(payload) ==
    LET dicts == SelectSeq(Or(Get(payload, "comments"), List(<<>>)).items, IsDict)
    IN IF AuthorRaises(payload) \/ \E i \in 1..Len(dicts) : AuthorRaises(dicts[i])
       THEN [ok |-> FALSE, val |-> <<>>]
       ELSE [ ok |-> TRUE,
              val |-> [ issue |-> [ body |-> Or(Get(payload, "body"), Str("")),
                                    author |-> AuthorLogin(payload),
                                    assignees |-> Flatten(payload, "assignees", "login"),
                                    labels |-> Flatten(payload, "labels", "name") ],
                        comments |-> [i \in 1..Len(dicts) |-> NormalizeComment(dicts[i])] ] ]

\* -------------------------------------------------------- external process
\* What subprocess.run hands back (the CompletedProcess p of _run), chosen
\* by the environment.  spawned = FALSE is subprocess.run raising OSError.
StderrTexts == {<<>>, <<"e">>, <<" ", "e", " ">>}
Malformed == [kind |-> "malformed"]
Json(payload) == [kind |-> "json", payload |-> payload]
Text == [kind |-> "text"]

Outcomes(cmd, bodies) ==
    {[cmd |-> cmd, spawned |-> TRUE, returncode |-> 0, stderr |-> <<>>, stdout |-> b] :
        b \in bodies}
    \cup
    {[cmd |-> cmd, spawned |-> TRUE, returncode |-> 1, stderr |-> e, stdout |-> Text] :
        e \in StderrTexts}
    \cup
    {[cmd |-> cmd, spawned |-> FALSE, returncode |-> 0, stderr |-> <<>>, stdout |-> Text]}
\* mutant of CommandFailed: the message leaves the captured stderr out
CommandFailed_NoStderr(p) ==
    [name |-> "CommandFailed", msg |-> <<"Command failed: ", p.cmd, "\n">>]

\* ------------------------------------------------------------------ errors
\* An exception is [name, msg]; msg is str(e) as a sequence of tokens.
CommandFailed(p) ==
    [ name |-> "CommandFailed",
      msg |-> <<"Command failed: ", p.cmd, "\n">> \o Strip(p.stderr) ]
MalformedOutput == [name |-> "MalformedOutput", msg |-> <<"Failed to parse JSON">>]
Unauthenticated ==
    [ name |-> "Unauthenticated",
      msg |-> <<"GitHub CLI is not authenticated. Run: gh auth login">> ]
InvalidReference == [name |-> "InvalidReference", msg |-> <<"Invalid reference">>]
GraphQueryError == [name |-> "GraphQueryError", msg |-> <<"GitHub GraphQL errors:">>]
OSError == [name |-> "OSError", msg |-> <<"No such file or directory">>]
PayloadError == [name |-> "PayloadError", msg |-> <<"payload">>]
NoError == [name |-> "", msg |-> <<>>]

\* _run: [ok, out, exc]
_run(p) ==
    IF ~p.spawned THEN [ok |-> FALSE, out |-> Text, exc |-> OSError]
    ELSE IF p.returncode # 0 THEN [ok |-> FALSE, out |-> Text, exc |-> CommandFailed(p)]
    ELSE [ok |-> TRUE, out |-> p.stdout, exc |-> NoError]

\* _run_json: _run, then json.loads of its output
_run_json(p) ==
    LET r == _run(p) IN
    IF ~r.ok THEN r
    ELSE IF r.out.kind # "json" THEN [ok |-> FALSE, out |-> Text, exc |-> MalformedOutput]
    ELSE r
\* mutant of AuthError: the probe's own failure is surfaced
AuthError_Surfaced(exc) == exc

\* the exception _ensure_gh_authenticated raises when its _run raised
AuthError(exc) == Unauthenticated

\* _ensure_gh_authenticated: [ok, exc]
_ensure_gh_authenticated(p) ==
    LET r == _run(p) IN
    IF r.ok THEN [ok |-> TRUE, exc |-> NoError]
    ELSE [ok |-> FALSE, exc |-> AuthError(r.exc)]

\* ------------------------------------------------------------------- state
Progs == {"fetch_issue", "fetch_pr_diff", "fetch_pr_comments"}
Colls == {"comments", "reviews", "reviewThreads"}
NoCursors == [c \in Colls |-> 0]

\* the positional arguments main() is run with in Spec
Args == { <<"1">>, <<"#", "1", "0">>, <<"0">>, <<"a">>, <<" ", "1">>,
          <<"a", "/pull/", "1">> }

VARIABLES
    prog,           \* which of the three scripts runs
    argv,           \* sys.argv[1:]
    pc,             \* where main() is
    issue_number,   \* main's issue_number (0 before it is parsed)
    pr_ref,         \* main's pr_ref (<<>> is None)
    calls,          \* the external processes run so far, in order, each with
                    \* the CompletedProcess it gave back
    raw,            \* <<payload>> of fetch_issue once parsed, else <<>>
    K,              \* responder: per collection, pages with hasNextPage=true
    restart,        \* responder: an omitted cursor yields page one again
    cursors,        \* fetch_all's comments_cursor, reviews_cursor, threads_cursor
    acc,            \* fetch_all's three accumulated sequences
    trips,          \* per completed round trip: cursors sent, hasNextPage seen
    stdout,         \* <<document>> once printed, else <<>>
    stderr,         \* what the run wrote to the error stream
    exitStatus      \* the process's exit status (-1 while running)

vars == << prog, argv, pc, issue_number, pr_ref, calls, raw, K, restart,
           cursors, acc, trips, stdout, stderr, exitStatus >>

fetchVars == << cursors, acc, trips >>

NoStderr == [form |-> "empty", error |-> "", msg |-> <<>>]

InitRun ==
    /\ pc = "start"
    /\ issue_number = 0
    /\ pr_ref = <<>>
    /\ calls = <<>>
    /\ raw = <<>>
    /\ cursors = NoCursors
    /\ acc = [c \in Colls |-> <<>>]
    /\ trips = <<>>
    /\ stdout = <<>>
    /\ stderr = NoStderr
    /\ exitStatus = -1

InitResponder ==
    IF prog = "fetch_pr_comments"
    THEN K \in [Colls -> 0..MaxK] /\ restart \in BOOLEAN
    ELSE K = NoCursors /\ restart = TRUE

Init ==
    /\ prog \in Progs
    /\ argv \in UNION {[1..k -> Args] : k \in 0..(MaxArgc - 1)}
    /\ InitResponder
    /\ InitRun

\* --------------------------------------------------------------- exits
\* sys.exit(2) after the usage line
ExitUsage ==
    /\ pc' = "exited"
    /\ exitStatus' = 2
    /\ stderr' = [form |-> "usage", error |-> "", msg |-> <<"Usage:">>]

\* main's `except Exception as e`: print(str(e), file=sys.stderr); sys.exit(1)
Handle(exc) ==
    /\ pc' = "exited"
    /\ exitStatus' = 1
    /\ stderr' = [form |-> "message", error |-> exc.name, msg |-> exc.msg]

\* an exception raised outside main's try: the interpreter prints the
\* traceback and exits with status 1
Uncaught(exc) ==
    /\ pc' = "exited"
    /\ exitStatus' = 1
    /\ stderr' = [form |-> "traceback", error |-> exc.name,
                  msg |-> <<"Traceback (most recent call last):">> \o exc.msg]

\* print(json.dumps(result, indent=2)) and the normal end of main
PrintResult(result) ==
    /\ pc' = "exited"
    /\ exitStatus' = 0
    /\ stdout' = <<result>>
    /\ UNCHANGED stderr

\* one entry of calls: the command line's reference and cursors, and p
Call(p, ref, sent) == [cmd |-> p.cmd, ref |-> ref, cursors |-> sent, result |-> p]
\* mutant of IsUsageError: the argument count is tested one too high
IsUsageError_OffByOne(p, n) == IF p = "fetch_issue" THEN n \notin {2, 3} ELSE n > 3

\* ------------------------------------------------------------ main: entry
\* the usage test on n = len(sys.argv)
IsUsageError(p, n) == IF p = "fetch_issue" THEN n # 2 ELSE n > 2

\* main() up to its first external process: the usage test and the parse of
\* the reference (inside the try in fetch_issue, before it in the PR scripts)
Main ==
    /\ pc = "start"
    /\ IF IsUsageError(prog, Len(argv) + 1)
       THEN ExitUsage /\ UNCHANGED <<issue_number, pr_ref>>
       ELSE IF prog = "fetch_issue"
       THEN LET r == _parse_issue_number(argv[1]) IN
            IF r.ok
            THEN /\ issue_number' = r.n
                 /\ pc' = "auth"
                 /\ UNCHANGED <<pr_ref, exitStatus, stderr>>
            ELSE Handle(InvalidReference) /\ UNCHANGED <<issue_number, pr_ref>>
       ELSE IF Len(argv) + 1 = 2
       THEN LET r == _parse_pr_ref(argv[1]) IN
            IF r.ok
            THEN /\ pr_ref' = r.ref
                 /\ pc' = "auth"
                 /\ UNCHANGED <<issue_number, exitStatus, stderr>>
            ELSE Uncaught(InvalidReference) /\ UNCHANGED <<issue_number, pr_ref>>
       ELSE /\ pc' = "auth"
            /\ UNCHANGED <<issue_number, pr_ref, exitStatus, stderr>>
    /\ UNCHANGED <<prog, argv, calls, raw, K, restart, fetchVars, stdout>>

\* _ensure_gh_authenticated(), the first statement of main's try
EnsureGhAuthenticated ==
    /\ pc = "auth"
    /\ \E p \in Outcomes("gh auth status", {Text}) :
        /\ calls' = Append(calls, Call(p, <<>>, NoCursors))
        /\ LET r == _ensure_gh_authenticated(p) IN
           IF r.ok
           THEN pc' = "query" /\ UNCHANGED <<exitStatus, stderr>>
           ELSE Handle(r.exc)
    /\ UNCHANGED <<prog, argv, issue_number, pr_ref, raw, K, restart, fetchVars, stdout>>

\* ------------------------------------------------------------- fetch_issue
\* fetch_issue(issue_number) and the print that follows it
FetchIssue ==
    /\ pc = "query"
    /\ prog = "fetch_issue"
    /\ \E p \in Outcomes("gh issue view", {Malformed} \cup {Json(x) : x \in IssuePayloads}) :
        /\ calls' = Append(calls, Call(p, <<issue_number>>, NoCursors))
        /\ LET r == _run_json(p) IN
           IF ~r.ok
           THEN Handle(r.exc) /\ UNCHANGED <<raw, stdout>>
           ELSE LET n == NormalizeIssue(r.out.payload) IN
                /\ raw' = <<r.out.payload>>
                /\ IF n.ok
                   THEN PrintResult(n.val)
                   ELSE Handle(PayloadError) /\ UNCHANGED stdout
    /\ UNCHANGED <<prog, argv, issue_number, pr_ref, K, restart, fetchVars>>

\* ----------------------------------------------------------- fetch_pr_diff
PrViewPayload == MkObj([number |-> Str("1"), title |-> Str("t")])

\* pr_json = _get_pr_view_json(pr_ref)
GetPrViewJson ==
    /\ pc = "query"
    /\ prog = "fetch_pr_diff"
    /\ \E p \in Outcomes("gh pr view", {Malformed, Json(PrViewPayload)}) :
        /\ calls' = Append(calls, Call(p, pr_ref, NoCursors))
        /\ LET r == _run_json(p) IN
           IF ~r.ok
           THEN Handle(r.exc) /\ UNCHANGED raw
           ELSE /\ raw' = <<r.out.payload>>
                /\ pc' = "diff"
                /\ UNCHANGED <<exitStatus, stderr>>
    /\ UNCHANGED <<prog, argv, issue_number, pr_ref, K, restart, fetchVars, stdout>>

\* diff = _get_pr_diff(pr_ref), and the print of {"pr": ..., "diff": ...}
GetPrDiff ==
    /\ pc = "diff"
    /\ \E p \in Outcomes("gh pr diff", {Text}) :
        /\ calls' = Append(calls, Call(p, pr_ref, NoCursors))
        /\ LET r == _run(p) IN
           IF ~r.ok
           THEN Handle(r.exc) /\ UNCHANGED stdout
           ELSE PrintResult([pr |-> raw[1], diff |-> r.out])
    /\ UNCHANGED <<prog, argv, issue_number, pr_ref, raw, K, restart, fetchVars>>

\* ------------------------------------------------------- fetch_pr_comments
HeadPayload ==
    MkObj([ number |-> Str("1"),
            headRepositoryOwner |-> MkObj([login |-> Str("acme")]),
            headRepository |-> MkObj([name |-> Str("widget")]) ])
NoHeadPayload ==
    MkObj([number |-> Str("1"), headRepositoryOwner |-> Null, headRepository |-> Null])

\* pr["headRepositoryOwner"]["login"], pr["headRepository"]["name"] and
\* pr["number"] all subscript without raising
HeadSubscripts(pr) ==
    /\ {"number", "headRepositoryOwner", "headRepository"} \subseteq DOMAIN pr.f
    /\ IsDict(pr.f["headRepositoryOwner"])
    /\ "login" \in DOMAIN pr.f["headRepositoryOwner"].f
    /\ IsDict(pr.f["headRepository"])
    /\ "name" \in DOMAIN pr.f["headRepository"].f

\* owner, repo, number = _get_pr_owner_repo_number(pr_ref)
GetPrOwnerRepoNumber ==
    /\ pc = "query"
    /\ prog = "fetch_pr_comments"
    /\ \E p \in Outcomes("gh pr view", {Malformed, Json(HeadPayload), Json(NoHeadPayload)}) :
        /\ calls' = Append(calls, Call(p, pr_ref, NoCursors))
        /\ LET r == _run_json(p) IN
           IF ~r.ok
           THEN Handle(r.exc) /\ UNCHANGED raw
           ELSE IF ~HeadSubscripts(r.out.payload)
           THEN Handle(PayloadError) /\ UNCHANGED raw
           ELSE /\ raw' = <<r.out.payload>>
                /\ pc' = "loop"
                /\ UNCHANGED <<exitStatus, stderr>>
    /\ UNCHANGED <<prog, argv, issue_number, pr_ref, K, restart, fetchVars, stdout>>

\* The query responder.  Collection c has K[c] + 1 pages; page p holds the
\* nodes <<c, p, j>> and reports hasNextPage exactly when p <= K[c].  A
\* request carrying cursor n (the endCursor of page n) is answered with page
\* n + 1, and one that omits the cursor on the first round trip with page
\* one (`after: $commentsCursor` with a null cursor).  What an omitted cursor
\* yields on a later round trip is the endpoint's choice: page one again
\* (restart), or an empty page that reports no further pages.
Page(c, cursor, rt) ==
    IF cursor = 0 /\ rt > 1 /\ ~restart
    THEN [nodes |-> <<>>, hasNextPage |-> FALSE, endCursor |-> 0]
    ELSE [ nodes |-> [j \in 1..NodesPerPage |-> <<c, cursor + 1, j>>],
           hasNextPage |-> cursor + 1 <= K[c],
           endCursor |-> cursor + 1 ]

\* the JSON envelopes `gh api graphql` may print for the request
Envelopes(pages) ==
    { [errors |-> e, data |-> d] : e \in {<<>>, <<"boom">>}, d \in {<<>>, <<pages>>} }
\* mutant of HasErrors: the errors array is never looked at
HasErrors_Ignored(payload) == FALSE

\* `if "errors" in payload and payload["errors"]`
HasErrors(payload) == payload.errors # <<>>

\* c["pageInfo"]["endCursor"] if c["pageInfo"]["hasNextPage"] else None
NextCursor(page) == IF page.hasNextPage THEN page.endCursor ELSE 0
\* mutant of LoopDone: the threads cursor is left out of the exit test
LoopDone_ForgetsThreads(cur) == cur["comments"] = 0 /\ cur["reviews"] = 0

\* `not (comments_cursor or reviews_cursor or threads_cursor)`
LoopDone(cur) == \A c \in Colls : cur[c] = 0

\* one iteration of fetch_all's `while True`, and on the last one the
\* return and the print of the result
FetchAllRoundTrip ==
    /\ pc = "loop"
    /\ LET pages == [c \in Colls |-> Page(c, cursors[c], Len(trips) + 1)] IN
       \E p \in Outcomes("gh api graphql", {Malformed} \cup {Json(x) : x \in Envelopes(pages)}) :
        /\ calls' = Append(calls, Call(p, <<>>, cursors))
        /\ LET r == _run_json(p) IN
           IF ~r.ok
           THEN Handle(r.exc) /\ UNCHANGED <<fetchVars, stdout>>
           ELSE IF HasErrors(r.out.payload)
           THEN Handle(GraphQueryError) /\ UNCHANGED <<fetchVars, stdout>>
           ELSE IF r.out.payload.data = <<>>
           THEN Handle(PayloadError) /\ UNCHANGED <<fetchVars, stdout>>
           ELSE LET pr == r.out.payload.data[1]
                    nacc == [c \in Colls |-> acc[c] \o pr[c].nodes]
                    ncur == [c \in Colls |-> NextCursor(pr[c])]
                IN /\ acc' = nacc
                   /\ cursors' = ncur
                   /\ trips' = Append(trips, [ sent |-> cursors,
                                               hasNextPage |-> [c \in Colls |-> pr[c].hasNextPage] ])
                   /\ IF LoopDone(ncur)
                      THEN PrintResult([ pull_request |-> raw[1],
                                         conversation_comments |-> nacc["comments"],
                                         reviews |-> nacc["reviews"],
                                         review_threads |-> nacc["reviewThreads"] ])
                      ELSE UNCHANGED <<pc, exitStatus, stderr, stdout>>
    /\ UNCHANGED <<prog, argv, issue_number, pr_ref, raw, K, restart>>

\* ---------------------------------------------------------- specifications
Next ==
    \/ Main
    \/ EnsureGhAuthenticated
    \/ FetchIssue
    \/ GetPrViewJson
    \/ GetPrDiff
    \/ GetPrOwnerRepoNumber
    \/ FetchAllRoundTrip

Spec == Init /\ [][Next]_vars

\* the reference parsers on every argument string up to MaxLen symbols
ParseInit ==
    /\ prog \in Progs
    /\ argv \in {<<s>> : s \in Strings(MaxLen)}
    /\ K = NoCursors
    /\ restart = TRUE
    /\ InitRun

ParseSpec == ParseInit /\ [][Main]_vars

\* ------------------------------------------------------------------ claims
Exited == pc = "exited"
Returned == prog = "fetch_pr_comments" /\ Exited /\ exitStatus = 0
MaxOf(f) == CHOOSE m \in {f[c] : c \in Colls} : \A c \in Colls : f[c] <= m
GraphqlCalls == Cardinality({i \in 1..Len(calls) : calls[i].cmd = "gh api graphql"})
NonZero(call) == call.result.spawned /\ call.result.returncode # 0

\* the responder of C1: on its i-th answer, collection c reports
\* hasNextPage=true exactly when i <= K[c]
RespondsAsClaimed ==
    \A i \in 1..Len(trips), c \in Colls : trips[i].hasNextPage[c] = (i <= K[c])

\* C1 as stated: with a responder that reports hasNextPage=true for exactly
\* K pages per collection and then false, fetch_all returns after exactly
\* max(K_comments, K_reviews, K_threads) calls of _gh_api_graphql.
C1_Original == (Returned /\ RespondsAsClaimed) => GraphqlCalls = MaxOf(K)

\* C1 amended: with that responder the loop terminates (it always has a
\* next round trip to make, and never makes more than max(K) + 1), and when
\* fetch_all returns it has made exactly max(K) + 1 calls of
\* _gh_api_graphql: the K-th page that reports true is followed by the
\* round trip that reports false.
C1_RoundTrips ==
    /\ pc = "loop" => ENABLED FetchAllRoundTrip
    /\ RespondsAsClaimed => GraphqlCalls <= MaxOf(K) + 1
    /\ (Returned /\ RespondsAsClaimed) => GraphqlCalls = MaxOf(K) + 1

C1_Witness ==
    /\ Returned
    /\ RespondsAsClaimed
    /\ K["comments"] < K["reviews"]
    /\ K["reviews"] < K["reviewThreads"]
    /\ GraphqlCalls = K["reviewThreads"] + 1

\* the nodes of pages 1..n of collection c, in page order
RECURSIVE PagesUpTo(_, _)
PagesUpTo(c, n) ==
    IF n = 0 THEN <<>>
    ELSE PagesUpTo(c, n - 1) \o [j \in 1..NodesPerPage |-> <<c, n, j>>]

\* C2: when fetch_all returns, each accumulated sequence holds exactly the
\* nodes of its collection's pages, each once, in page order; a collection
\* that reported hasNextPage=false gains nothing from later round trips.
C2_Original ==
    Returned => \A c \in Colls : acc[c] = PagesUpTo(c, K[c] + 1)

\* (calls[1] and calls[2] are the probe and `gh pr view`, so the j-th round
\* trip is calls[j + 2])
\* C3: a cursor is set only if the page just received reported
\* hasNextPage=true, and once a collection has reported hasNextPage=false its
\* cursor stays cleared and is never sent again.
C3_Original ==
    \A c \in Colls :
        /\ cursors[c] # 0 => (trips # <<>> /\ trips[Len(trips)].hasNextPage[c])
        /\ \A i \in 1..Len(trips) :
            ~trips[i].hasNextPage[c] =>
                /\ cursors[c] = 0
                /\ \A j \in (i + 1)..GraphqlCalls : calls[j + 2].cursors[c] = 0

\* C4: every non-usage error, an invalid reference included, is caught by
\* main's handler: only the message goes to the error stream, nothing to
\* standard output, and the exit status is 1.
C4_Original ==
    (Exited /\ exitStatus \notin {0, 2}) =>
        /\ stderr.form = "message"
        /\ stdout = <<>>
        /\ exitStatus = 1

\* the digits of s when s is a run of digits with or without one leading '#'
\* (a set of at most one string)
NumeralDigits(s) ==
    LET d == IF s # <<>> /\ Head(s) = "#" THEN Tail(s) ELSE s
    IN IF FullMatchDigits(d) THEN {d} ELSE {}

\* C5 as stated: _parse_issue_number returns N exactly when its argument is
\* the decimal numeral of some N >= 1, with or without a leading '#', and
\* fails with the invalid-reference error on every other string.
C5_Original ==
    (prog = "fetch_issue" /\ pc # "start") =>
        IF \E d \in NumeralDigits(argv[1]) : ToInt(d) >= 1
        THEN pc = "auth" /\ \A d \in NumeralDigits(argv[1]) : issue_number = ToInt(d)
        ELSE Exited /\ stderr.error = "InvalidReference"

\* the digits of s when s is: whitespace, then any number of '#', then one or
\* more digits, then whitespace (a set of at most one string)
LenientDigits(s) ==
    { SubSeq(s, x[2] + 1, x[3]) :
        x \in { y \in (0..Len(s)) \X (0..Len(s)) \X (1..Len(s)) :
                  /\ y[1] <= y[2] /\ y[2] < y[3]
                  /\ \A i \in 1..y[1] : s[i] \in Whitespace
                  /\ \A i \in (y[1] + 1)..y[2] : s[i] = "#"
                  /\ \A i \in (y[2] + 1)..y[3] : s[i] \in Digits
                  /\ \A i \in (y[3] + 1)..Len(s) : s[i] \in Whitespace } }

\* C5 amended: _parse_issue_number returns N exactly when its argument is,
\* between optional leading and trailing whitespace, any number of '#'
\* followed by one or more decimal digits whose value is N >= 1; on every
\* other string it fails with the invalid-reference error, which main
\* reports with exit status 1 before any external process runs.
C5_Parse ==
    (prog = "fetch_issue" /\ pc # "start") =>
        IF \E d \in LenientDigits(argv[1]) : ToInt(d) >= 1
        THEN /\ pc = "auth"
             /\ \A d \in LenientDigits(argv[1]) : issue_number = ToInt(d)
        ELSE /\ Exited
             /\ exitStatus = 1
             /\ stderr.error = "InvalidReference"
             /\ calls = <<>>

C5_Witness ==
    /\ prog = "fetch_issue"
    /\ argv = << <<"#", "#", "1", " ">> >>
    /\ pc = "auth"
    /\ issue_number = 1

\* no author field, of the issue or of a comment, holds anything but null or
\* an object
AuthorsNullOrObj(payload) ==
    LET cs == SelectSeq(Or(Get(payload, "comments"), List(<<>>)).items, IsDict)
    IN /\ Get(payload, "author").t \in {"null", "obj"}
       /\ \A i \in 1..Len(cs) : Get(cs[i], "author").t \in {"null", "obj"}

\* C6: fetch_issue does not fail on a payload whose author, assignees or
\* labels field is null or absent, and the record it prints holds "" for
\* such an author and [] for such a list, never null.
C6_Original ==
    (prog = "fetch_issue" /\ raw # <<>> /\ AuthorsNullOrObj(raw[1])) =>
        /\ exitStatus = 0
        /\ stdout # <<>>
        /\ Get(raw[1], "author") = Null => stdout[1].issue.author = Str("")
        /\ Get(raw[1], "assignees") = Null => stdout[1].issue.assignees = <<>>
        /\ Get(raw[1], "labels") = Null => stdout[1].issue.labels = <<>>
        /\ \A i \in 1..Len(stdout[1].comments) : stdout[1].comments[i].author # Null

\* C7 as stated: whenever an external process of the run, the auth probe
\* included, exits non-zero, the run ends with CommandFailed, its message
\* embedding that process's stderr text, and exit status 1.
C7_Original ==
    \A i \in 1..Len(calls) :
        NonZero(calls[i]) =>
            /\ Exited
            /\ exitStatus = 1
            /\ stderr.error = "CommandFailed"
            /\ Embeds(stderr.msg, calls[i].result.stderr)

\* C7 amended: a process that exits non-zero is the run's last and the run
\* ends with exit status 1; for the auth probe the message is the
\* Unauthenticated one, for every other process it is CommandFailed's, which
\* names the command and ends with the process's stderr text stripped of
\* leading and trailing whitespace.
C7_NonZeroExit ==
    \A i \in 1..Len(calls) :
        NonZero(calls[i]) =>
            /\ i = Len(calls)
            /\ Exited
            /\ exitStatus = 1
            /\ stdout = <<>>
            /\ stderr.form = "message"
            /\ IF calls[i].cmd = "gh auth status"
               THEN stderr.error = "Unauthenticated" /\ stderr.msg = Unauthenticated.msg
               ELSE /\ stderr.error = "CommandFailed"
                    /\ Embeds(stderr.msg, <<calls[i].cmd>>)
                    /\ Embeds(stderr.msg, <<"\n">> \o Strip(calls[i].result.stderr))

C7_Witness ==
    /\ Len(calls) >= 3
    /\ NonZero(calls[Len(calls)])
    /\ calls[Len(calls)].result.stderr = <<" ", "e", " ">>
    /\ stderr.error = "CommandFailed"
    /\ Exited

\* the i-th process is a round trip of fetch_all that exited non-zero,
\* printed malformed JSON, or printed a non-empty errors array
TripFailed(i) ==
    /\ calls[i].cmd = "gh api graphql"
    /\ \/ NonZero(calls[i])
       \/ /\ calls[i].result.spawned
          /\ calls[i].result.returncode = 0
          /\ \/ calls[i].result.stdout.kind = "malformed"
             \/ calls[i].result.stdout.payload.errors # <<>>

\* C8: a round trip of fetch_all that fails (non-zero exit, malformed JSON or
\* a non-empty errors array) is the run's last process; nothing accumulated
\* is printed and the run exits with status 1.
C8_AbortsOnFailure ==
    \A i \in 1..Len(calls) :
        TripFailed(i) =>
            /\ i = Len(calls)
            /\ Exited
            /\ exitStatus = 1
            /\ stdout = <<>>
            /\ stderr.form = "message"

C8_Witness ==
    /\ Len(trips) >= 1
    /\ acc["reviews"] # <<>>
    /\ TripFailed(Len(calls))
    /\ calls[Len(calls)].result.returncode = 0
    /\ calls[Len(calls)].result.stdout.kind = "json"
    /\ calls[Len(calls)].result.stdout.payload.data # <<>>
    /\ Exited

\* C9: the auth probe is the first external process of a run and no query
\* precedes it; if it fails for any reason no query process is invoked and
\* the run fails with the Unauthenticated error naming `gh auth login`.
C9_AuthFirst ==
    /\ \A i \in 1..Len(calls) : (calls[i].cmd = "gh auth status") = (i = 1)
    /\ (calls # <<>> /\ ~_run(calls[1].result).ok) =>
        /\ Len(calls) = 1
        /\ Exited
        /\ exitStatus = 1
        /\ stdout = <<>>
        /\ stderr.error = "Unauthenticated"
        /\ stderr.msg = <<"GitHub CLI is not authenticated. Run: gh auth login">>

C9_Witness ==
    /\ prog = "fetch_pr_comments"
    /\ Len(calls) = 1
    /\ NonZero(calls[1])
    /\ calls[1].result.stderr # <<>>
    /\ stderr.error = "Unauthenticated"
    /\ Exited

\* C10: with more than one positional argument, and for fetch_issue also
\* with none, the run ends with exit status 2 and the usage line on the
\* error stream, and no external process is invoked at any point.
C10_UsageExit ==
    (Len(argv) + 1 > 2 \/ (prog = "fetch_issue" /\ Len(argv) + 1 = 1)) =>
        /\ calls = <<>>
        /\ pc \in {"start", "exited"}
        /\ Exited => (exitStatus = 2 /\ stderr.form = "usage" /\ stdout = <<>>)

C10_Witness ==
    /\ prog = "fetch_pr_diff"
    /\ Len(argv) + 1 = 3
    /\ Exited
    /\ exitStatus = 2
    /\ calls = <<>>

====
